---- MODULE Spec2Model ----
(***************************************************************************)
(* Model of app.py (Rice Doctor AI): the Streamlit script that loads a     *)
(* cached YOLO classifier, stages an image in a temporary file, runs       *)
(* inference, deletes the file, and looks the predicted label up in the    *)
(* rice_consultant table.                                                  *)
(*                                                                         *)
(* Each browser session runs the script top to bottom in its own thread;   *)
(* sessions interleave, and they share the file system and the             *)
(* st.cache_resource cache.  pc[s] is the position of session s in the     *)
(* script.                                                                 *)
(***************************************************************************)
EXTENDS Integers, Sequences, FiniteSets, TLC

\* ---------------------------------------------------------------- bounds
NumSessions == 2      \* concurrent script runs
MaxPaths == 2         \* names the temporary directory can hand out
MaxCalls == 2         \* diagnose calls started over the whole behaviour
ProbUnits == 2        \* probabilities are multiples of 1/ProbUnits

Sessions == 1..NumSessions
Paths == 1..MaxPaths

\* ---------------------------------------------------------- the table
\* app.py:12-41  the treatment record written under each key.
TreatmentOf(l) ==
     CASE l = "Brown Spot" ->
            [type |-> "Fungal Infection (Cochliobolus miyabeanus)",
             cause |-> "Often linked to Potassium (K) & Silicon (Si) deficiency.",
             remedy |-> "Spray Propiconazole (1ml/liter).",
             prevention |-> "Boost Potassium (K) to thicken cell walls. Apply Calcium Silicate."]
       [] l = "Leaf Blast" ->
            [type |-> "Fungal Infection (Magnaporthe oryzae)",
             cause |-> "Triggered by Excess Nitrogen (toxic).",
             remedy |-> "Spray Tricyclazole 75 WP.",
             prevention |-> "Avoid excess Urea. Split N application into 3-4 doses."]
       [] l = "Bacterial Leaf Blight" ->
            [type |-> "Bacterial Infection (Xanthomonas oryzae)",
             cause |-> "High Nitrogen + High Humidity.",
             remedy |-> "Drain field. Spray Copper Oxychloride + Streptocycline.",
             prevention |-> "Maintain proper drainage. Avoid late-stage Nitrogen."]
       [] l = "Tungro" ->
            [type |-> "Viral Disease (Vector: Green Leafhopper)",
             cause |-> "Spread by Leafhoppers.",
             remedy |-> "Control vector with Imidacloprid.",
             prevention |-> "Use resistant varieties (like IR36). Synchronous planting."]
       [] l = "Khaira" ->
            [type |-> "Abiotic Stress (Micronutrient Deficiency)",
             cause |-> "Zinc (Zn) Deficiency. Common in high pH soils.",
             remedy |-> "Apply Zinc Sulphate (25kg/ha) + Urea spray.",
             prevention |-> "Basal application of Zinc Sulphate. Green manuring (Dhaincha)."]

\* The table with the "Khaira" entry left out.
RiceConsultantTable_NoKhaira ==
  [l \in {"Brown Spot", "Leaf Blast", "Bacterial Leaf Blight", "Tungro"} |->
     TreatmentOf(l)]

\* app.py:11-42  rice_consultant = { ... }
RiceConsultantTable ==
  [l \in {"Brown Spot", "Leaf Blast", "Bacterial Leaf Blight", "Tungro", "Khaira"} |->
     TreatmentOf(l)]

\* dict.get that never finds the key.
DictGet_AlwaysNone(table, key) == << >>

\* dict.get(key): the value wrapped in a one-element tuple, << >> for None.
DictGet(table, key) ==
  IF key \in DOMAIN table THEN <<table[key]>> ELSE << >>

\* `if advice:` -- None and the empty dict are falsy.
Truthy(advice) ==
  advice # << >> /\ DOMAIN advice[1] # {}

\* ------------------------------------------------- the classifier output
\* results[0].names: the classes compiled into best.pt.  The artifact is not
\* part of the repository; the table's keys need not cover its classes.
ClassNames == <<"Brown Spot", "Leaf Blast", "Tungro", "Unknown Label">>

NumClasses == Len(ClassNames)

RECURSIVE SumTo(_, _)
SumTo(d, n) == IF n = 0 THEN 0 ELSE d[n] + SumTo(d, n - 1)

\* results[0].probs: one probability per class, summing to 1.
Distributions ==
  {d \in [1..NumClasses -> 0..ProbUnits] : SumTo(d, NumClasses) = ProbUnits}

\* An index that ignores the probabilities.
Top1_FirstClass(d) == 1

\* probs.top1: argmax, the first index holding the maximum.
Top1(d) ==
  CHOOSE i \in 1..NumClasses :
    /\ \A j \in 1..NumClasses : d[j] <= d[i]
    /\ \A j \in 1..(i - 1) : d[j] < d[i]

\* probs.top1conf.item() * 100, in units of 1/ProbUnits percent.
Confidence(d) == d[Top1(d)] * 100

\* f"{conf:.1f}": conf rounded to one decimal, as a number of tenths of a
\* percent.
Format1f(c) == (c * 20 + ProbUnits) \div (2 * ProbUnits)

\* ------------------------------------------------------------- the state
VARIABLES
  pc,               \* [Sessions -> position in the script]
  rice_consultant,  \* [Sessions -> the module-level table of the run]
  model,            \* [Sessions -> handle bound to `model`, 0 when unbound]
  site,             \* [Sessions -> tab whose diagnose call is/was running]
  outcome,          \* [Sessions -> "none" | "running" | "returned" | "raised"]
  call,             \* [Sessions -> id of the current/last diagnose call, 0 none]
  tmp_path,         \* [Sessions -> the local tmp_path / tmp.name, 0 when unset]
  results,          \* [Sessions -> the local results, << >> when unset]
  pred_name,        \* [Sessions -> the local pred_name, "" when unset]
  conf,             \* [Sessions -> the local conf]
  diagnosis,        \* [Sessions -> <<label, tenths of a percent>> displayed by
                    \*  st.success, << >> if nothing]
  advisory,         \* [Sessions -> what the advice branch displayed]
  inferCount,       \* [Sessions -> inference invocations of the current call]
  fs,               \* [Paths -> id of the call that created the file, 0 absent]
  artifact,         \* best.pt can be loaded
  cache,            \* st.cache_resource entry of load_model, 0 when empty
  handles,          \* YOLO instances constructed so far
  loadFailed,       \* some load_model() call has raised
  nextCall          \* diagnose calls started so far

vars == <<pc, rice_consultant, model, site, outcome, call, tmp_path, results,
          pred_name, conf, diagnosis, advisory, inferCount, fs, artifact,
          cache, handles, loadFailed, nextCall>>

callVars == <<tmp_path, results, pred_name, conf, diagnosis, advisory, inferCount>>
loadVars == <<artifact, cache, handles, loadFailed>>

\* The script has executed lines 1-47 in every session: the table is built,
\* nothing is cached, nothing is staged.
Init ==
  /\ pc = [s \in Sessions |-> "load"]
  /\ rice_consultant = [s \in Sessions |-> RiceConsultantTable]
  /\ model = [s \in Sessions |-> 0]
  /\ site = [s \in Sessions |-> 0]
  /\ outcome = [s \in Sessions |-> "none"]
  /\ call = [s \in Sessions |-> 0]
  /\ tmp_path = [s \in Sessions |-> 0]
  /\ results = [s \in Sessions |-> << >>]
  /\ pred_name = [s \in Sessions |-> ""]
  /\ conf = [s \in Sessions |-> 0]
  /\ diagnosis = [s \in Sessions |-> << >>]
  /\ advisory = [s \in Sessions |-> << >>]
  /\ inferCount = [s \in Sessions |-> 0]
  /\ fs = [p \in Paths |-> 0]
  /\ artifact \in BOOLEAN
  /\ cache = 0
  /\ handles = {}
  /\ loadFailed = FALSE
  /\ nextCall = 0

\* ------------------------------------------------------------ operations
\* tempfile.NamedTemporaryFile picks a name that does not exist yet
\* (O_EXCL); the candidates are the unused names.
FreshPaths_FixedName(files) == {1}

FreshPaths(files) == {p \in Paths : files[p] = 0}

\* os.remove that leaves the file in place.
os_remove_Skipped(files, path) == files

\* app.py:73  os.remove(tmp_path)
os_remove(files, path) == [files EXCEPT ![path] = 0]

\* load_model without the cache: every call constructs a YOLO instance.
load_model_Uncached(cached, loadable, made) ==
  IF loadable
  THEN LET h == Cardinality(made) + 1 IN <<h, h, made \cup {h}>>
  ELSE <<0, cached, made>>

\* app.py:50-53  @st.cache_resource load_model(): the cached instance when
\* there is one, otherwise YOLO("best.pt"), cached only when it returns.
\* The result is <<returned handle or 0 when it raised, cache', handles'>>.
load_model(cached, loadable, made) ==
  IF cached # 0 THEN <<cached, cached, made>>
  ELSE IF loadable
       THEN LET h == Cardinality(made) + 1 IN <<h, h, made \cup {h}>>
       ELSE <<0, cached, made>>

\* The except branch without st.stop(): the script carries on.
AfterLoad_NoStop(handle) == "tab1"

\* app.py:55-59  try / except: st.error(...); st.stop().  Where the script
\* goes after load_model() returned handle, or raised (0).
AfterLoad(handle) == IF handle # 0 THEN "tab1" ELSE "stopped"

\* app.py:55-59  model = load_model(); on an exception st.error + st.stop()
\* end this script run.
LoadModel(s) ==
  /\ pc[s] = "load"
  /\ LET r == load_model(cache, artifact, handles) IN
       /\ cache' = r[2]
       /\ handles' = r[3]
       /\ pc' = [pc EXCEPT ![s] = AfterLoad(r[1])]
       /\ IF r[1] # 0
          THEN /\ model' = [model EXCEPT ![s] = r[1]]
               /\ loadFailed' = loadFailed
          ELSE /\ model' = model
               /\ loadFailed' = TRUE
  /\ UNCHANGED <<rice_consultant, site, outcome, call, callVars, fs, artifact, nextCall>>

\* app.py:58  "Please run the 'Move Model' code first": the operator puts
\* best.pt in place.
MoveModel ==
  /\ ~artifact
  /\ artifact' = TRUE
  /\ UNCHANGED <<pc, rice_consultant, model, site, outcome, call, callVars, fs,
                 cache, handles, loadFailed, nextCall>>

\* app.py:62-63  entry of diagnose(image_source) from tab t: fresh locals.
EnterDiagnose(s, t) ==
  /\ nextCall < MaxCalls
  /\ nextCall' = nextCall + 1
  /\ call' = [call EXCEPT ![s] = nextCall + 1]
  /\ site' = [site EXCEPT ![s] = t]
  /\ outcome' = [outcome EXCEPT ![s] = "running"]
  /\ tmp_path' = [tmp_path EXCEPT ![s] = 0]
  /\ results' = [results EXCEPT ![s] = << >>]
  /\ pred_name' = [pred_name EXCEPT ![s] = ""]
  /\ conf' = [conf EXCEPT ![s] = 0]
  /\ diagnosis' = [diagnosis EXCEPT ![s] = << >>]
  /\ advisory' = [advisory EXCEPT ![s] = << >>]
  /\ inferCount' = [inferCount EXCEPT ![s] = 0]
  /\ pc' = [pc EXCEPT ![s] = "create"]

\* An exception leaves diagnose and, uncaught, ends the script run.
\* An exception that is recorded while the call carries on to the advice.
Raise_Continue(s) ==
  /\ pc' = [pc EXCEPT ![s] = "advise"]
  /\ outcome' = [outcome EXCEPT ![s] = "raised"]
  /\ UNCHANGED <<site, tmp_path, results, pred_name, conf>>

\* The locals of diagnose go out of scope; nothing has been displayed beyond
\* what the call displayed before the exception.
Raise(s) ==
  /\ pc' = [pc EXCEPT ![s] = "error"]
  /\ outcome' = [outcome EXCEPT ![s] = "raised"]
  /\ site' = [site EXCEPT ![s] = 0]
  /\ tmp_path' = [tmp_path EXCEPT ![s] = 0]
  /\ results' = [results EXCEPT ![s] = << >>]
  /\ pred_name' = [pred_name EXCEPT ![s] = ""]
  /\ conf' = [conf EXCEPT ![s] = 0]

\* app.py:98-102  camera tab: no picture, a picture Image.open rejects, or a
\* picture handed to diagnose.
Tab1(s) ==
  /\ pc[s] = "tab1"
  /\ \E cam_img \in {"none", "unreadable", "image"} :
       CASE cam_img = "none" ->
              /\ pc' = [pc EXCEPT ![s] = "tab2"]
              /\ UNCHANGED <<site, outcome, call, callVars, nextCall>>
         [] cam_img = "unreadable" ->
              /\ pc' = [pc EXCEPT ![s] = "error"]
              /\ UNCHANGED <<site, outcome, call, callVars, nextCall>>
         [] cam_img = "image" ->
              EnterDiagnose(s, 1)
  /\ UNCHANGED <<rice_consultant, model, fs, loadVars>>

\* app.py:104-109  upload tab: no file, an unreadable file, a file without
\* the button pressed, or a file handed to diagnose.
Tab2(s) ==
  /\ pc[s] = "tab2"
  /\ \E up_file \in {"none", "unreadable", "image"}, button \in BOOLEAN :
       CASE up_file = "none" \/ (up_file = "image" /\ ~button) ->
              /\ pc' = [pc EXCEPT ![s] = "done"]
              /\ UNCHANGED <<site, outcome, call, callVars, nextCall>>
         [] up_file = "unreadable" ->
              /\ pc' = [pc EXCEPT ![s] = "error"]
              /\ UNCHANGED <<site, outcome, call, callVars, nextCall>>
         [] up_file = "image" /\ button ->
              EnterDiagnose(s, 2)
  /\ UNCHANGED <<rice_consultant, model, fs, loadVars>>

\* app.py:67  NamedTemporaryFile(delete=False, suffix=".jpg") creates an
\* empty file under an unused name; with no name left it raises.
CreateTemp(s) ==
  /\ pc[s] = "create"
  /\ IF FreshPaths(fs) # {}
     THEN \E p \in FreshPaths(fs) :
            /\ fs' = [fs EXCEPT ![p] = call[s]]
            /\ tmp_path' = [tmp_path EXCEPT ![s] = p]
            /\ pc' = [pc EXCEPT ![s] = "save"]
            /\ UNCHANGED <<site, outcome, results, pred_name, conf>>
     ELSE /\ Raise(s)
          /\ fs' = fs
  /\ UNCHANGED <<rice_consultant, model, call, diagnosis, advisory, inferCount,
                 loadVars, nextCall>>

\* app.py:68-69  image_source.save(tmp.name) writes the JPEG, or raises (an
\* image mode JPEG cannot hold); the with block closes the file and, with
\* delete=False, keeps it.
SaveImage(s) ==
  /\ pc[s] = "save"
  /\ \E saved \in BOOLEAN :
       IF saved
       THEN /\ pc' = [pc EXCEPT ![s] = "infer"]
            /\ UNCHANGED <<site, outcome, tmp_path, results, pred_name, conf>>
       ELSE Raise(s)
  /\ UNCHANGED <<rice_consultant, model, call, diagnosis, advisory, inferCount, fs,
                 loadVars, nextCall>>

\* app.py:72  results = model(tmp_path): a distribution over the classes, or
\* an exception, which skips line 73.
RunInference(s) ==
  /\ pc[s] = "infer"
  /\ inferCount' = [inferCount EXCEPT ![s] = @ + 1]
  /\ \/ \E d \in Distributions :
          /\ fs[tmp_path[s]] # 0
          /\ results' = [results EXCEPT ![s] = d]
          /\ pc' = [pc EXCEPT ![s] = "remove"]
          /\ UNCHANGED <<site, outcome, tmp_path, pred_name, conf>>
     \/ Raise(s)
  /\ UNCHANGED <<rice_consultant, model, call, diagnosis, advisory, fs, loadVars,
                 nextCall>>

\* app.py:73  os.remove(tmp_path); a missing file raises FileNotFoundError.
RemoveTemp(s) ==
  /\ pc[s] = "remove"
  /\ IF fs[tmp_path[s]] # 0
     THEN /\ fs' = os_remove(fs, tmp_path[s])
          /\ pc' = [pc EXCEPT ![s] = "extract"]
          /\ UNCHANGED <<site, outcome, tmp_path, results, pred_name, conf>>
     ELSE /\ Raise(s)
          /\ fs' = fs
  /\ UNCHANGED <<rice_consultant, model, call, diagnosis, advisory, inferCount,
                 loadVars, nextCall>>

\* app.py:76-79  top_idx = probs.top1; pred_name = names[top_idx];
\* conf = probs.top1conf.item() * 100
ExtractResults(s) ==
  /\ pc[s] = "extract"
  /\ pred_name' = [pred_name EXCEPT ![s] = ClassNames[Top1(results[s])]]
  /\ conf' = [conf EXCEPT ![s] = Confidence(results[s])]
  /\ pc' = [pc EXCEPT ![s] = "display"]
  /\ UNCHANGED <<rice_consultant, model, site, outcome, call, tmp_path, results,
                 diagnosis, advisory, inferCount, fs, loadVars, nextCall>>

\* app.py:82  st.success(f"**Diagnosis: {pred_name}** ({conf:.1f}%)")
DisplayDiagnosis(s) ==
  /\ pc[s] = "display"
  /\ diagnosis' = [diagnosis EXCEPT ![s] = <<pred_name[s], Format1f(conf[s])>>]
  /\ pc' = [pc EXCEPT ![s] = "advise"]
  /\ UNCHANGED <<rice_consultant, model, site, outcome, call, tmp_path, results,
                 pred_name, conf, advisory, inferCount, fs, loadVars, nextCall>>

\* app.py:85-93  advice = rice_consultant.get(pred_name); the treatment plan
\* when truthy, the warning otherwise; diagnose returns to its tab and the
\* locals go out of scope.
GetAdvice(s) ==
  /\ pc[s] = "advise"
  /\ LET advice == DictGet(rice_consultant[s], pred_name[s]) IN
       advisory' = [advisory EXCEPT ![s] =
                      IF Truthy(advice) THEN <<"plan", advice[1]>>
                      ELSE <<"No specific advice available.">>]
  /\ outcome' = [outcome EXCEPT ![s] = "returned"]
  /\ tmp_path' = [tmp_path EXCEPT ![s] = 0]
  /\ results' = [results EXCEPT ![s] = << >>]
  /\ pred_name' = [pred_name EXCEPT ![s] = ""]
  /\ conf' = [conf EXCEPT ![s] = 0]
  /\ site' = [site EXCEPT ![s] = 0]
  /\ pc' = [pc EXCEPT ![s] = IF site[s] = 1 THEN "tab2" ELSE "done"]
  /\ UNCHANGED <<rice_consultant, model, call, diagnosis, inferCount, fs, loadVars,
                 nextCall>>

\* A widget interaction reruns the script from the top in the same process:
\* lines 1-47 rebuild the table; the cache and the files on disk stay.
Rerun(s) ==
  /\ pc[s] \in {"done", "stopped", "error"}
  /\ pc' = [pc EXCEPT ![s] = "load"]
  /\ rice_consultant' = [rice_consultant EXCEPT ![s] = RiceConsultantTable]
  /\ model' = [model EXCEPT ![s] = 0]
  /\ site' = [site EXCEPT ![s] = 0]
  /\ outcome' = [outcome EXCEPT ![s] = "none"]
  /\ call' = [call EXCEPT ![s] = 0]
  /\ tmp_path' = [tmp_path EXCEPT ![s] = 0]
  /\ results' = [results EXCEPT ![s] = << >>]
  /\ pred_name' = [pred_name EXCEPT ![s] = ""]
  /\ conf' = [conf EXCEPT ![s] = 0]
  /\ diagnosis' = [diagnosis EXCEPT ![s] = << >>]
  /\ advisory' = [advisory EXCEPT ![s] = << >>]
  /\ inferCount' = [inferCount EXCEPT ![s] = 0]
  /\ UNCHANGED <<fs, loadVars, nextCall>>

Next ==
  \/ MoveModel
  \/ \E s \in Sessions : LoadModel(s)
  \/ \E s \in Sessions : Tab1(s)
  \/ \E s \in Sessions : Tab2(s)
  \/ \E s \in Sessions : CreateTemp(s)
  \/ \E s \in Sessions : SaveImage(s)
  \/ \E s \in Sessions : RunInference(s)
  \/ \E s \in Sessions : RemoveTemp(s)
  \/ \E s \in Sessions : ExtractResults(s)
  \/ \E s \in Sessions : DisplayDiagnosis(s)
  \/ \E s \in Sessions : GetAdvice(s)
  \/ \E s \in Sessions : Rerun(s)

Spec == Init /\ [][Next]_vars

TypeOK ==
  /\ \A s \in Sessions : pc[s] \in {"load", "tab1", "tab2", "create", "save", "infer",
        "remove", "extract", "display", "advise", "done", "stopped", "error"}
  /\ \A p \in Paths : fs[p] \in 0..MaxCalls

\* ------------------------------------------------------------ properties
DiagnosePcs == {"create", "save", "infer", "remove", "extract", "display", "advise"}
StagedPcs == {"save", "infer", "remove"}
KnownLabels == {"Brown Spot", "Leaf Blast", "Bacterial Leaf Blight", "Tungro", "Khaira"}

\* Paths holding a file created by call c.
FilesOf(c) == {p \in Paths : c # 0 /\ fs[p] = c}

\* The per-call state of the spec, read off the script position.
Phase(s) ==
  CASE outcome[s] = "none" -> "Idle"
    [] outcome[s] = "returned" -> "Resolved"
    [] outcome[s] = "raised" -> "Failed"
    [] outcome[s] = "running" /\ pc[s] = "create" -> "Idle"
    [] outcome[s] = "running" /\ pc[s] \in {"save", "infer"} -> "Staged"
    [] OTHER -> "Inferred"

\* C1: after a diagnose call that failed (the image could not be saved, or
\* inference raised), no staging file created by that call is on disk.
C1_StagingReleasedOnFailure ==
  \A s \in Sessions : outcome[s] = "raised" => FilesOf(call[s]) = {}

\* C2: once inference has returned in a diagnose call, no staging file
\* created by that call is on disk: not while the results are extracted,
\* displayed and looked up, and not after the call has returned.
C2_StagingRemovedAfterInference ==
  \A s \in Sessions :
    (pc[s] \in {"extract", "display", "advise"} \/ outcome[s] = "returned")
      => FilesOf(call[s]) = {}

\* A call is interpreting its results, with its file already gone, while a
\* file of another call is still on disk.
C2_Witness ==
  \E s \in Sessions :
    /\ pc[s] = "extract"
    /\ outcome[s] = "running"
    /\ results[s] # << >>
    /\ FilesOf(call[s]) = {}
    /\ \E p \in Paths : fs[p] # 0

\* C3: at most one model instance is ever constructed, the cache holds it,
\* and every session that has acquired the model holds that instance.
C3_SingleModelHandle ==
  /\ Cardinality(handles) <= 1
  /\ cache # 0 => handles = {cache}
  /\ \A s \in Sessions : model[s] # 0 => model[s] = cache /\ handles = {cache}

\* Two sessions have both acquired the model.
C3_Witness ==
  \E s, t \in Sessions : s # t /\ model[s] # 0 /\ model[t] # 0

\* C4 as stated: in a process where a model load has failed, no load ever
\* succeeds afterwards (the load is not retried), no script run holds a
\* model, and no diagnose call is in progress.
C4_LoadFailureHaltsProcess ==
  loadFailed =>
    /\ handles = {}
    /\ \A s \in Sessions : model[s] = 0 /\ pc[s] \notin DiagnosePcs

\* C4 amended: a script run whose model load failed stops there: it holds
\* no model and has started no diagnose call; and every diagnose call runs
\* in a script run that holds the loaded model.
C4_FailedRunServesNothing ==
  \A s \in Sessions :
    /\ pc[s] = "stopped" =>
         model[s] = 0 /\ outcome[s] = "none" /\ call[s] = 0 /\ inferCount[s] = 0
    /\ model[s] = 0 => pc[s] \in {"load", "stopped"} /\ outcome[s] = "none"
    /\ (pc[s] \in DiagnosePcs \/ outcome[s] # "none") =>
         model[s] # 0 /\ model[s] = cache

\* A script run has stopped on the failed load.
C4_Witness ==
  \E s \in Sessions : pc[s] = "stopped" /\ loadFailed /\ ~artifact

\* C5: a diagnose call that raised has ended its script run with the
\* exception, has displayed no diagnosis and no advisory, and has left the
\* model handle as it was: still the one cached instance.
C5_InferenceFailureIsLocal ==
  \A s \in Sessions :
    outcome[s] = "raised" =>
      /\ pc[s] = "error"
      /\ diagnosis[s] = << >>
      /\ advisory[s] = << >>
      /\ model[s] # 0 /\ model[s] = cache /\ handles = {cache}

\* One call failed in inference, and a call started after it, on the same
\* model instance, returned a diagnosis.
C5_Witness ==
  \E s, t \in Sessions :
    /\ outcome[s] = "raised" /\ inferCount[s] = 1
    /\ outcome[t] = "returned" /\ call[t] > call[s]
    /\ diagnosis[t] # << >>
    /\ model[t] = model[s]

\* C6: a diagnose call that returned displayed a diagnosis, and its advisory
\* is the table's record for the diagnosed label when the label is a key
\* (for "Leaf Blast" the remedy "Spray Tricyclazole 75 WP.") and the
\* no-advice warning when it is not.
C6_AdvisoryIsLookup ==
  \A s \in Sessions :
    outcome[s] = "returned" =>
      /\ diagnosis[s] # << >>
      /\ IF diagnosis[s][1] \in KnownLabels
         THEN /\ advisory[s] = <<"plan", TreatmentOf(diagnosis[s][1])>>
              /\ diagnosis[s][1] = "Leaf Blast" =>
                   advisory[s][2].remedy = "Spray Tricyclazole 75 WP."
         ELSE advisory[s] = <<"No specific advice available.">>

\* One call returned the Leaf Blast plan and another returned a diagnosis
\* with no advice.
C6_Witness ==
  \E s, t \in Sessions :
    /\ outcome[s] = "returned" /\ diagnosis[s][1] = "Leaf Blast"
    /\ advisory[s][1] = "plan"
    /\ outcome[t] = "returned" /\ diagnosis[t][1] = "Unknown Label"
    /\ advisory[t] = <<"No specific advice available.">>

\* C7: in every session, at every time, the table has a record with four
\* non-empty fields for each of the five labels, has nothing for any other
\* class name, and is the table the script wrote.
C7_KnowledgeBaseTotalImmutable ==
  \A s \in Sessions :
    /\ DOMAIN rice_consultant[s] = KnownLabels
    /\ \A l \in KnownLabels :
         LET r == DictGet(rice_consultant[s], l) IN
           /\ r # << >>
           /\ r[1] = TreatmentOf(l)
           /\ DOMAIN r[1] = {"type", "cause", "remedy", "prevention"}
           /\ r[1].type # "" /\ r[1].cause # ""
           /\ r[1].remedy # "" /\ r[1].prevention # ""
    /\ DictGet(rice_consultant[s], "Unknown Label") = << >>

\* A diagnose call has looked up a label the table does not have and
\* returned, and another has looked up one it has; the tables are intact.
C7_Witness ==
  \E s, t \in Sessions :
    /\ outcome[s] = "returned" /\ diagnosis[s][1] \notin KnownLabels
    /\ outcome[t] = "returned" /\ diagnosis[t][1] \in KnownLabels
    /\ rice_consultant[s] = rice_consultant[t]
    /\ DOMAIN rice_consultant[s] = KnownLabels

\* C8: the extracted label is the name of a class whose probability is at
\* least every other class's, the confidence is that probability times 100
\* and lies in 0..100 (in units of 1/ProbUnits percent), and the diagnosis
\* displayed is that label with that confidence to one decimal, however low.
C8_DiagnosisIsTop1 ==
  \A s \in Sessions :
    /\ pc[s] \in {"display", "advise"} =>
         \E i \in 1..NumClasses :
           /\ pred_name[s] = ClassNames[i]
           /\ conf[s] = results[s][i] * 100
           /\ \A j \in 1..NumClasses : results[s][j] <= results[s][i]
           /\ 0 <= conf[s] /\ conf[s] <= 100 * ProbUnits
    /\ pc[s] = "advise" =>
         /\ diagnosis[s] # << >>
         /\ diagnosis[s][1] = pred_name[s]
         /\ diagnosis[s][2] * 2 * ProbUnits - conf[s] * 20 <= ProbUnits
         /\ conf[s] * 20 - diagnosis[s][2] * 2 * ProbUnits <= ProbUnits
    /\ outcome[s] = "returned" =>
         /\ diagnosis[s] # << >>
         /\ \E i \in 1..NumClasses : diagnosis[s][1] = ClassNames[i]
         /\ 0 <= diagnosis[s][2] /\ diagnosis[s][2] <= 1000

\* A diagnosis of at most 50% confidence has been displayed.
C8_Witness ==
  \E s \in Sessions :
    /\ pc[s] = "advise"
    /\ diagnosis[s] # << >>
    /\ diagnosis[s][2] <= 500
    /\ \E j \in 1..NumClasses : j # 1 /\ pred_name[s] = ClassNames[j]

\* The per-call transitions C9 allows.
PhaseStep(a, b) ==
  \/ a = b
  \/ a = "Idle" /\ b = "Staged"
  \/ a = "Staged" /\ b \in {"Inferred", "Failed"}
  \/ a = "Inferred" /\ b = "Resolved"
  \/ a \in {"Resolved", "Failed"} /\ b = "Idle"

\* C9: every call moves Idle -> Staged -> Inferred -> Resolved or
\* Idle -> Staged -> Failed; the file is staged before inference, inference
\* precedes the lookup, inference runs at most once per call, and a call
\* that is Failed has no staging file left.
C9_CallStateMachine ==
  /\ [][\A s \in Sessions : PhaseStep(Phase(s), Phase(s)')]_vars
  /\ [](\A s \in Sessions :
          /\ inferCount[s] <= 1
          /\ Phase(s) = "Staged" => FilesOf(call[s]) = {tmp_path[s]}
          /\ inferCount[s] = 1 => Phase(s) # "Idle"
          /\ advisory[s] # << >> => inferCount[s] = 1 /\ Phase(s) = "Resolved"
          /\ Phase(s) = "Failed" => FilesOf(call[s]) = {})

\* C10: every call that has a staging file holds a path whose file it
\* created itself, and no two such calls hold the same path; a file leaves
\* the disk only when the call that created it removes it, and is never
\* replaced by another call's file.
C10_DistinctStagingPaths ==
  /\ [](\A s \in Sessions :
          pc[s] \in StagedPcs =>
            /\ tmp_path[s] \in Paths
            /\ fs[tmp_path[s]] = call[s]
            /\ \A t \in Sessions :
                 (t # s /\ pc[t] \in StagedPcs) => tmp_path[t] # tmp_path[s])
  /\ [][\A p \in Paths :
          fs[p] # 0 =>
            \/ fs'[p] = fs[p]
            \/ /\ fs'[p] = 0
               /\ \E s \in Sessions :
                    pc[s] = "remove" /\ tmp_path[s] = p /\ call[s] = fs[p]]_vars

\* Two calls are staged at once, each on its own path.
C10_Witness ==
  \E s, t \in Sessions :
    /\ s # t
    /\ pc[s] = "infer" /\ pc[t] = "remove"
    /\ tmp_path[s] # tmp_path[t]
    /\ fs[tmp_path[s]] = call[s] /\ fs[tmp_path[t]] = call[t]

====
